---- MODULE Spec2Model ----
(***************************************************************************)
(* Model of scripts/parquet_stac_utils.py (write_dataset_with_retry) and   *)
(* scripts/build_sar_catalog.py (_bbox_and_times, build_catalog).          *)
(*                                                                         *)
(* Two specifications share the module:                                    *)
(*   SpecRetry  one call of write_dataset_with_retry, one loop iteration   *)
(*              per step;                                                  *)
(*   Spec       build_catalog over an assets/ tree, run and then re-run    *)
(*              over the same tree, one loop iteration / one document      *)
(*              write / one validation pass per step.                      *)
(* External collaborators (the Parquet writer, the STAC validator, the     *)
(* storage backend) are modelled at their interface: their outcome is an   *)
(* input drawn at the call.  time.sleep sleeps for a non-negative duration *)
(* and raises ValueError for a negative one.                               *)
(***************************************************************************)
EXTENDS Integers, Sequences, FiniteSets

VARIABLES
    \* ---- write_dataset_with_retry ----
    retries,      \* parameter `retries`
    backoff,      \* parameter `backoff`
    attempt,      \* loop variable of `for attempt in range(1, retries + 1)`
    wstate,       \* "idle" | "running" | "returned" | "raised"
    wlog,         \* events so far: write calls with their outcome, sleeps with their duration
    werror,       \* the error that reached the caller: the outcome of the failed write, or
                  \* "ValueError" out of time.sleep ("none" if none)
    \* ---- build_catalog ----
    tree,         \* the assets/ tree: path -> table (NoFile when absent)
    pc,           \* position of build_catalog
    run,          \* 1 for the first run over the tree, 2 for the re-run
    queue,        \* files of sorted(assets_dir.rglob("*.parquet")) not yet processed
    order,        \* files the loop has taken up so far, in order
    items,        \* `items`
    overall_bbox, \* `overall_bbox` (NoBBox for None)
    start_times,  \* `start_times`
    end_times,    \* `end_times`
    total_rows,   \* `total_rows`
    collection,   \* the collection built after the loop (NoCollection before)
    saved,        \* number of documents collection.save has written so far
    written,      \* documents written by the current run: href -> document
    trace,        \* protocol events of the current run, in order
    error,        \* the error build_catalog terminated with ("none" if none)
    prev          \* result of the first run, kept for the re-run

retryVars == <<retries, backoff, attempt, wstate, wlog, werror>>
catalogVars == <<tree, pc, run, queue, order, items, overall_bbox, start_times,
                 end_times, total_rows, collection, saved, written, trace, error, prev>>
vars == <<retries, backoff, attempt, wstate, wlog, werror,
          tree, pc, run, queue, order, items, overall_bbox, start_times,
          end_times, total_rows, collection, saved, written, trace, error, prev>>

(***************************************************************************)
(* Bounds of the model and program constants.                              *)
(***************************************************************************)
MaxRetries == 3
MaxBackoff == 2
MaxFiles == 3
DefaultRetries == 5
DefaultBackoff == 5

(***************************************************************************)
(* write_dataset_with_retry                                                *)
(***************************************************************************)

\* Outcomes of pq.write_to_dataset: success, an OSError whose message holds
\* "SLOW_DOWN", an OSError without it, an exception that is no OSError.
WriteOutcomes == {"ok", "SLOW_DOWN", "OSError", "Exception"}

RetriesDomain == ((0 - 1) .. MaxRetries) \cup {DefaultRetries}
BackoffDomain == ((0 - 2) .. MaxBackoff) \cup {DefaultBackoff}

WriteEvent(n, o) == [op |-> "write", attempt |-> n, outcome |-> o, wait |-> 0]
SleepEvent(n, w) == [op |-> "sleep", attempt |-> n, outcome |-> "none", wait |-> w]
SleepErrorEvent(n, w) ==
    [op |-> "sleep_error", attempt |-> n, outcome |-> "ValueError", wait |-> w]

\* `attempt in range(1, retries + 1)`: the loop body runs for this attempt.
InRange(a, r) == a >= 1 /\ a <= r

\* `except OSError`: the handler catches this outcome.
IsOSError(o) == o \in {"SLOW_DOWN", "OSError"}

\* Mutant of ShouldRetry: the marker test is dropped, every OSError is retried.
ShouldRetry_AnyOSError(o, a, r) == IsOSError(o) /\ a < r

\* `"SLOW_DOWN" in msg and attempt < retries`
ShouldRetry(o, a, r) == IsOSError(o) /\ o = "SLOW_DOWN" /\ a < r

\* Mutant of Wait: the exponent is the attempt number itself.
Wait_OffByOne(b, a) == b * (2 ^ a)

\* `wait = backoff * (2 ** (attempt - 1))`
Wait(b, a) == b * (2 ^ (a - 1))

\* time.sleep(wait) sleeps; it raises ValueError for a negative length.
SleepAccepts(w) == w >= 0

RetryIdle ==
    /\ retries = 0 /\ backoff = 0 /\ attempt = 0
    /\ wstate = "idle" /\ wlog = <<>> /\ werror = "none"

\* The call: parameters bound, loop variable at the first value of the range.
RetryInit ==
    /\ retries \in RetriesDomain
    /\ backoff \in BackoffDomain
    /\ attempt = 1
    /\ wstate = "running"
    /\ wlog = <<>>
    /\ werror = "none"

\* pq.write_to_dataset succeeds; `return`.
WriteReturns ==
    /\ wstate = "running" /\ InRange(attempt, retries)
    /\ wlog' = Append(wlog, WriteEvent(attempt, "ok"))
    /\ wstate' = "returned"
    /\ UNCHANGED <<retries, backoff, attempt, werror>>
    /\ UNCHANGED catalogVars

\* The write raises and the handler retries: sleep, `continue`.
WriteThrottledRetry ==
    /\ wstate = "running" /\ InRange(attempt, retries)
    /\ SleepAccepts(Wait(backoff, attempt))
    /\ \E o \in WriteOutcomes \ {"ok"} :
        /\ ShouldRetry(o, attempt, retries)
        /\ wlog' = wlog \o <<WriteEvent(attempt, o),
                             SleepEvent(attempt, Wait(backoff, attempt))>>
    /\ attempt' = attempt + 1
    /\ UNCHANGED <<retries, backoff, wstate, werror>>
    /\ UNCHANGED catalogVars

\* The write raises, the handler goes on to retry, and time.sleep(wait)
\* raises ValueError inside the handler: that error leaves the function in
\* place of the write's.
SleepRaises ==
    /\ wstate = "running" /\ InRange(attempt, retries)
    /\ ~SleepAccepts(Wait(backoff, attempt))
    /\ \E o \in WriteOutcomes \ {"ok"} :
        /\ ShouldRetry(o, attempt, retries)
        /\ wlog' = wlog \o <<WriteEvent(attempt, o),
                             SleepErrorEvent(attempt, Wait(backoff, attempt))>>
    /\ werror' = "ValueError"
    /\ wstate' = "raised"
    /\ UNCHANGED <<retries, backoff, attempt>>
    /\ UNCHANGED catalogVars

\* The write raises and the handler (or no handler) lets the error out: `raise`.
WriteRaises ==
    /\ wstate = "running" /\ InRange(attempt, retries)
    /\ \E o \in WriteOutcomes \ {"ok"} :
        /\ ~ShouldRetry(o, attempt, retries)
        /\ wlog' = Append(wlog, WriteEvent(attempt, o))
        /\ werror' = o
    /\ wstate' = "raised"
    /\ UNCHANGED <<retries, backoff, attempt>>
    /\ UNCHANGED catalogVars

\* The range is exhausted: the function falls off its end and returns None.
RangeExhausted ==
    /\ wstate = "running" /\ ~InRange(attempt, retries)
    /\ wstate' = "returned"
    /\ UNCHANGED <<retries, backoff, attempt, wlog, werror>>
    /\ UNCHANGED catalogVars

\* Derived views of the log.
Writes == SelectSeq(wlog, LAMBDA e : e.op = "write")
Sleeps == SelectSeq(wlog, LAMBDA e : e.op = "sleep")
Calls == Len(Writes)


(***************************************************************************)
(* The assets/ tree                                                        *)
(***************************************************************************)

\* A path under assets/: directory, stem and whether the suffix is .parquet.
\* Names are numbered in lexical order, so that paths can be compared.
Path(d, s, p) == [dir |-> d, stem |-> s, parquet |-> p]

AssetPaths ==
    {Path(1, 1, TRUE), Path(1, 2, TRUE), Path(2, 1, TRUE), Path(2, 2, TRUE), Path(1, 3, FALSE)}

\* One row of a table: a point geometry and the two measurement times.
Row(x, y, f, l) == [x |-> x, y |-> y, first |-> f, last |-> l]

\* A table: whether pq.read_table can read it, whether its timestamps carry
\* an offset (and which), and its rows.
Table(rd, aw, off, rows) ==
    [present |-> TRUE, readable |-> rd, aware |-> aw, offset |-> off, rows |-> rows]

NoFile == [present |-> FALSE, readable |-> FALSE, aware |-> FALSE, offset |-> 0, rows |-> <<>>]

Tables ==
    { Table(TRUE, FALSE, 0, <<>>),
      Table(TRUE, FALSE, 0, <<Row(0, 1, 1, 2)>>),
      Table(TRUE, TRUE, 1, <<Row(1, 0, 2, 3), Row(2, 2, 0, 1)>>),
      Table(TRUE, FALSE, 0, <<Row(0 - 1, 3, 3, 3)>>),
      Table(TRUE, TRUE, 0 - 1, <<Row(0, 0, 1, 1), Row(3, 1, 4, 2), Row(1, 4, 0, 0)>>),
      Table(FALSE, FALSE, 0, <<>>) }

\* What a file that is no Parquet file holds does not matter: it is never read.
OtherContent == Table(FALSE, FALSE, 0, <<>>)

Present(t) == {p \in AssetPaths : t[p].present}

Trees ==
    { t \in [AssetPaths -> Tables \cup {NoFile}] :
        /\ Cardinality(Present(t)) <= MaxFiles
        /\ \A p \in AssetPaths : (~p.parquet /\ t[p].present) => t[p] = OtherContent }

\* assets_dir.rglob("*.parquet")
ParquetFiles(t) == {p \in Present(t) : p.parquet}

\* Path.__lt__: comparison of the parts, left to right.
PathLess(p, q) == p.dir < q.dir \/ (p.dir = q.dir /\ p.stem < q.stem)

\* The orders in which rglob may yield the files of a set.
Listings(S) ==
    { l \in [1 .. Cardinality(S) -> S] : \A i, j \in DOMAIN l : l[i] = l[j] => i = j }

RECURSIVE InsertSorted(_, _)
InsertSorted(p, s) ==
    IF s = <<>> THEN <<p>>
    ELSE IF PathLess(p, Head(s)) THEN <<p>> \o s
    ELSE <<Head(s)>> \o InsertSorted(p, Tail(s))

RECURSIVE SortedFrom(_, _)
SortedFrom(l, acc) ==
    IF l = <<>> THEN acc ELSE SortedFrom(Tail(l), InsertSorted(Head(l), acc))

\* Mutant of Sorted: the listing is used as rglob yields it.
Sorted_Unsorted(l) == l

\* sorted(...)
Sorted(l) == SortedFrom(l, <<>>)

\* parquet_file.stem
Stem(p) == p.stem

(***************************************************************************)
(* _bbox_and_times                                                         *)
(***************************************************************************)
Inf == 1000

\* Python's min(a, b) and max(a, b).
Min2(a, b) == IF b < a THEN b ELSE a
Max2(a, b) == IF b > a THEN b ELSE a

\* wkb.loads(g).bounds of a point
GeomBounds(r) == <<r.x, r.y, r.x, r.y>>

\* One iteration of `for g in geoms`.
BoundsStep(acc, b) ==
    <<Min2(acc[1], b[1]), Min2(acc[2], b[2]), Max2(acc[3], b[3]), Max2(acc[4], b[4])>>

RECURSIVE BoundsOf(_, _)
BoundsOf(rows, acc) ==
    IF rows = <<>> THEN acc
    ELSE BoundsOf(Tail(rows), BoundsStep(acc, GeomBounds(Head(rows))))

RECURSIVE MinOf(_)
MinOf(s) == IF Len(s) = 1 THEN s[1] ELSE Min2(s[1], MinOf(Tail(s)))

RECURSIVE MaxOf(_)
MaxOf(s) == IF Len(s) = 1 THEN s[1] ELSE Max2(s[1], MaxOf(Tail(s)))

\* start.replace(tzinfo=utc) if start.tzinfo is None else start.astimezone(utc)
ToUTC(v, tbl) == IF tbl.aware THEN v - tbl.offset ELSE v

NoSummary(e) ==
    [ok |-> FALSE, err |-> e, bbox |-> <<>>, start |-> 0, end |-> 0, row_count |-> 0]

\* Mutant of BboxAndTimes: the emptiness check is missing; an empty table
\* yields the seed values.
BboxAndTimes_NoEmptyCheck(tbl) ==
    IF ~tbl.readable THEN NoSummary("ReadError")
    ELSE IF tbl.rows = <<>>
         THEN [ok |-> TRUE, err |-> "none", bbox |-> <<Inf, Inf, 0 - Inf, 0 - Inf>>,
               start |-> 0, end |-> 0, row_count |-> 0]
    ELSE [ok |-> TRUE, err |-> "none",
          bbox |-> BoundsOf(tbl.rows, <<Inf, Inf, 0 - Inf, 0 - Inf>>),
          start |-> ToUTC(MinOf([i \in DOMAIN tbl.rows |-> tbl.rows[i].first]), tbl),
          end |-> ToUTC(MaxOf([i \in DOMAIN tbl.rows |-> tbl.rows[i].last]), tbl),
          row_count |-> Len(tbl.rows)]

\* _bbox_and_times: the summary of one table, or the error it raises.
BboxAndTimes(tbl) ==
    IF ~tbl.readable THEN NoSummary("ReadError")
    ELSE IF tbl.rows = <<>> THEN NoSummary("EmptyFile")
    ELSE [ok |-> TRUE, err |-> "none",
          bbox |-> BoundsOf(tbl.rows, <<Inf, Inf, 0 - Inf, 0 - Inf>>),
          start |-> ToUTC(MinOf([i \in DOMAIN tbl.rows |-> tbl.rows[i].first]), tbl),
          end |-> ToUTC(MaxOf([i \in DOMAIN tbl.rows |-> tbl.rows[i].last]), tbl),
          row_count |-> Len(tbl.rows)]


(***************************************************************************)
(* build_catalog                                                           *)
(***************************************************************************)
NoPath == Path(0, 0, FALSE)
NoBBox == <<>>

Ev(kind, p) == [ev |-> kind, file |-> p]

\* pystac.Item(id=parquet_file.stem, ...) with its data asset and table extension;
\* start_datetime and end_datetime hold the instants that _to_rfc3339_z formats.
Item(p, s) ==
    [id |-> Stem(p), asset |-> p, bbox |-> s.bbox, datetime |-> s.start,
     start_datetime |-> s.start, end_datetime |-> s.end, row_count |-> s.row_count]

\* Mutant of MergeBBox: the third coordinate is merged with min.
MergeBBox_MinForMax(overall, bbox) ==
    IF overall = NoBBox THEN bbox
    ELSE <<Min2(overall[1], bbox[1]), Min2(overall[2], bbox[2]),
           Min2(overall[3], bbox[3]), Max2(overall[4], bbox[4])>>

\* `if overall_bbox is None: ... else: [min, min, max, max]`
MergeBBox(overall, bbox) ==
    IF overall = NoBBox THEN bbox
    ELSE <<Min2(overall[1], bbox[1]), Min2(overall[2], bbox[2]),
           Max2(overall[3], bbox[3]), Max2(overall[4], bbox[4])>>

\* `total_rows += row_count`
AddRows(total, n) == total + n

NoCollection ==
    [built |-> FALSE, bbox |-> <<>>, interval |-> <<>>, row_count |-> 0, items |-> <<>>]

\* pystac.Collection(extent=..., ...) with its table and the items added to it
Collection(b, sts, ens, n, its) ==
    [built |-> TRUE, bbox |-> b, interval |-> <<MinOf(sts), MaxOf(ens)>>,
     row_count |-> n, items |-> its]

\* TemplateLayoutStrategy("collection.json", "items/${id}.json")
CollectionHref == <<"collection.json", 0>>
ItemHref(id) == <<"items", id>>

Hrefs == {CollectionHref} \cup {ItemHref(Stem(p)) : p \in AssetPaths}

NoDoc == [kind |-> "none", id |-> 0, asset |-> NoPath, bbox |-> <<>>,
          interval |-> <<>>, row_count |-> 0, links |-> <<>>]

ItemDoc(it) ==
    [kind |-> "item", id |-> it.id, asset |-> it.asset, bbox |-> it.bbox,
     interval |-> <<it.start_datetime, it.end_datetime>>, row_count |-> it.row_count,
     links |-> <<CollectionHref>>]

CollectionDoc(c) ==
    [kind |-> "collection", id |-> 0, asset |-> NoPath, bbox |-> c.bbox,
     interval |-> c.interval, row_count |-> c.row_count,
     links |-> [i \in DOMAIN c.items |-> ItemHref(c.items[i].id)]]

NoPrev == [order |-> <<>>, collection |-> NoCollection]

CatalogIdle ==
    /\ tree = [p \in AssetPaths |-> NoFile]
    /\ pc = "idle" /\ run = 0 /\ queue = <<>> /\ order = <<>> /\ items = <<>>
    /\ overall_bbox = NoBBox /\ start_times = <<>> /\ end_times = <<>>
    /\ total_rows = 0 /\ collection = NoCollection /\ saved = 0
    /\ written = [h \in Hrefs |-> NoDoc] /\ trace = <<>> /\ error = "none"
    /\ prev = NoPrev

\* The state at the call of build_catalog.
CatalogInit ==
    /\ tree \in Trees
    /\ pc = "start" /\ run = 1 /\ queue = <<>> /\ order = <<>> /\ items = <<>>
    /\ overall_bbox = NoBBox /\ start_times = <<>> /\ end_times = <<>>
    /\ total_rows = 0 /\ collection = NoCollection /\ saved = 0
    /\ written = [h \in Hrefs |-> NoDoc] /\ trace = <<>> /\ error = "none"
    /\ prev = NoPrev

\* Set-up and `sorted(assets_dir.rglob("*.parquet"))`: rglob yields the files
\* in an order of its own.
Enumerate ==
    /\ pc = "start"
    /\ \E l \in Listings(ParquetFiles(tree)) : queue' = Sorted(l)
    /\ pc' = "loop"
    /\ UNCHANGED <<tree, run, order, items, overall_bbox, start_times, end_times,
                   total_rows, collection, saved, written, trace, error, prev>>
    /\ UNCHANGED retryVars

\* A loop iteration in which _bbox_and_times raises.
SummarizeFails ==
    /\ pc = "loop" /\ queue # <<>>
    /\ LET f == Head(queue)
           s == BboxAndTimes(tree[f])
       IN  /\ ~s.ok
           /\ trace' = Append(trace, Ev("summarize", f))
           /\ error' = s.err
           /\ order' = Append(order, f)
    /\ queue' = Tail(queue)
    /\ pc' = "failed"
    /\ UNCHANGED <<tree, run, items, overall_bbox, start_times, end_times,
                   total_rows, collection, saved, written, prev>>
    /\ UNCHANGED retryVars

\* A loop iteration in which item.validate() raises.
ItemInvalid ==
    /\ pc = "loop" /\ queue # <<>>
    /\ LET f == Head(queue)
           s == BboxAndTimes(tree[f])
       IN  /\ s.ok
           /\ trace' = trace \o <<Ev("summarize", f), Ev("validate_item", f)>>
           /\ order' = Append(order, f)
    /\ error' = "ItemValidation"
    /\ queue' = Tail(queue)
    /\ pc' = "failed"
    /\ UNCHANGED <<tree, run, items, overall_bbox, start_times, end_times,
                   total_rows, collection, saved, written, prev>>
    /\ UNCHANGED retryVars

\* A complete loop iteration: summarize, build and validate the item, accumulate.
ItemAdded ==
    /\ pc = "loop" /\ queue # <<>>
    /\ LET f == Head(queue)
           s == BboxAndTimes(tree[f])
       IN  /\ s.ok
           /\ trace' = trace \o <<Ev("summarize", f), Ev("validate_item", f), Ev("append", f)>>
           /\ order' = Append(order, f)
           /\ items' = Append(items, Item(f, s))
           /\ start_times' = Append(start_times, s.start)
           /\ end_times' = Append(end_times, s.end)
           /\ total_rows' = AddRows(total_rows, s.row_count)
           /\ overall_bbox' = MergeBBox(overall_bbox, s.bbox)
    /\ queue' = Tail(queue)
    /\ UNCHANGED <<tree, pc, run, collection, saved, written, error, prev>>
    /\ UNCHANGED retryVars

\* Mutant of NothingFound: a bbox without width also counts as nothing found.
NothingFound_Degenerate(ob) == IF ob = NoBBox THEN TRUE ELSE ob[1] = ob[3]

\* `if overall_bbox is None`
NothingFound(ob) == ob = NoBBox

\* After the loop: `raise RuntimeError("No Parquet files found ...")`.
EmptyCatalog ==
    /\ pc = "loop" /\ queue = <<>>
    /\ NothingFound(overall_bbox)
    /\ error' = "EmptyCatalog"
    /\ pc' = "failed"
    /\ UNCHANGED <<tree, run, queue, order, items, overall_bbox, start_times, end_times,
                   total_rows, collection, saved, written, trace, prev>>
    /\ UNCHANGED retryVars

\* After the loop: build the collection, add every item, normalize_hrefs.
BuildCollection ==
    /\ pc = "loop" /\ queue = <<>>
    /\ ~NothingFound(overall_bbox)
    /\ collection' = Collection(overall_bbox, start_times, end_times, total_rows, items)
    /\ trace' = trace \o <<Ev("build_collection", NoPath)>>
                      \o [i \in DOMAIN items |-> Ev("link", items[i].asset)]
                      \o <<Ev("layout", NoPath)>>
    /\ saved' = 0
    /\ pc' = "save"
    /\ UNCHANGED <<tree, run, queue, order, items, overall_bbox, start_times, end_times,
                   total_rows, written, error, prev>>
    /\ UNCHANGED retryVars

\* collection.save writes the item documents in link order, then the
\* collection document.  One document per step.
SaveDocument ==
    /\ pc = "save"
    /\ IF saved < Len(collection.items)
       THEN LET it == collection.items[saved + 1]
            IN  /\ written' = [written EXCEPT ![ItemHref(it.id)] = ItemDoc(it)]
                /\ trace' = Append(trace, Ev("save_item", it.asset))
                /\ pc' = pc
       ELSE /\ written' = [written EXCEPT ![CollectionHref] = CollectionDoc(collection)]
            /\ trace' = Append(trace, Ev("save_collection", NoPath))
            /\ pc' = "validate"
    /\ saved' = saved + 1
    /\ UNCHANGED <<tree, run, queue, order, items, overall_bbox, start_times, end_times,
                   total_rows, collection, error, prev>>
    /\ UNCHANGED retryVars

\* The write of the next document fails in the storage adapter.
SaveFails ==
    /\ pc = "save"
    /\ error' = "StorageIO"
    /\ pc' = "failed"
    /\ UNCHANGED <<tree, run, queue, order, items, overall_bbox, start_times, end_times,
                   total_rows, collection, saved, written, trace, prev>>
    /\ UNCHANGED retryVars

\* Mutant of PostSaveEvents: the post-save pass validates the collection only.
PostSaveEvents_CollectionOnly(k) == <<Ev("validate_collection", NoPath)>>

\* Events of the post-save pass that validates the collection and the first k items.
PostSaveEvents(k) ==
    <<Ev("validate_collection", NoPath)>>
        \o [i \in 1 .. k |-> Ev("validate_item", collection.items[i].asset)]

\* collection.validate() and every it.validate() pass.
PostSaveValid ==
    /\ pc = "validate"
    /\ trace' = trace \o PostSaveEvents(Len(collection.items))
    /\ pc' = "done"
    /\ UNCHANGED <<tree, run, queue, order, items, overall_bbox, start_times, end_times,
                   total_rows, collection, saved, written, error, prev>>
    /\ UNCHANGED retryVars

\* The collection (k = 0) or the k-th item fails the post-save validation.
PostSaveInvalid ==
    /\ pc = "validate"
    /\ \E k \in 0 .. Len(collection.items) : trace' = trace \o PostSaveEvents(k)
    /\ error' = "CollectionValidation"
    /\ pc' = "failed"
    /\ UNCHANGED <<tree, run, queue, order, items, overall_bbox, start_times, end_times,
                   total_rows, collection, saved, written, prev>>
    /\ UNCHANGED retryVars

\* The builder is run again over the unchanged tree.
Rerun ==
    /\ pc = "done" /\ run = 1
    /\ prev' = [order |-> order, collection |-> collection]
    /\ run' = 2
    /\ pc' = "start"
    /\ queue' = <<>> /\ order' = <<>> /\ items' = <<>>
    /\ overall_bbox' = NoBBox /\ start_times' = <<>> /\ end_times' = <<>>
    /\ total_rows' = 0 /\ collection' = NoCollection /\ saved' = 0
    /\ written' = [h \in Hrefs |-> NoDoc] /\ trace' = <<>> /\ error' = "none"
    /\ UNCHANGED tree
    /\ UNCHANGED retryVars

(***************************************************************************)
(* Specifications                                                          *)
(***************************************************************************)
Init == CatalogInit /\ RetryIdle

Next ==
    \/ Enumerate
    \/ SummarizeFails
    \/ ItemInvalid
    \/ ItemAdded
    \/ EmptyCatalog
    \/ BuildCollection
    \/ SaveDocument
    \/ SaveFails
    \/ PostSaveValid
    \/ PostSaveInvalid
    \/ Rerun

Spec == Init /\ [][Next]_vars

InitRetry == RetryInit /\ CatalogIdle

NextRetry ==
    \/ WriteReturns
    \/ WriteThrottledRetry
    \/ SleepRaises
    \/ WriteRaises
    \/ RangeExhausted

SpecRetry == InitRetry /\ [][NextRetry]_vars


(***************************************************************************)
(* Properties of write_dataset_with_retry (checked under SpecRetry)        *)
(***************************************************************************)
RECURSIVE Pow2(_)
Pow2(n) == IF n <= 0 THEN 1 ELSE 2 * Pow2(n - 1)

RECURSIVE TotalWait(_)
TotalWait(s) == IF s = <<>> THEN 0 ELSE Head(s).wait + TotalWait(Tail(s))

Max0(n) == IF n < 0 THEN 0 ELSE n

\* The first k write calls: throttled on attempts 1..k-1, successful on attempt k.
ThrottledThenOk(k) ==
    /\ Calls >= k
    /\ \A i \in 1 .. (k - 1) : Writes[i].outcome = "SLOW_DOWN"
    /\ Writes[k].outcome = "ok"

\* Every write call so far was throttled.
OnlyThrottled == \A i \in 1 .. Calls : Writes[i].outcome = "SLOW_DOWN"

\* What C1 says of a run throttled on attempts 1..k-1 and successful on
\* attempt k, for every k in 1..retries: it has returned normally after
\* exactly k write calls and k-1 sleeps; the i-th sleep lasts
\* backoff*2^(i-1) and lies between attempt i and attempt i+1; the sleeps
\* add up to backoff*(2^(k-1)-1).
ScheduleFollowed ==
    \A k \in 1 .. retries :
        ThrottledThenOk(k) =>
            /\ wstate = "returned"
            /\ werror = "none"
            /\ Calls = k
            /\ Len(Sleeps) = k - 1
            /\ Len(wlog) = 2 * k - 1
            /\ \A i \in 1 .. (k - 1) :
                /\ wlog[2 * i - 1] = WriteEvent(i, "SLOW_DOWN")
                /\ wlog[2 * i].op = "sleep"
                /\ wlog[2 * i].wait = backoff * Pow2(i - 1)
            /\ wlog[2 * k - 1] = WriteEvent(k, "ok")
            /\ TotalWait(Sleeps) = backoff * (Pow2(k - 1) - 1)

\* While fewer than `retries` calls were made and all were throttled, the
\* function has neither returned nor raised and has slept once per
\* failure: the next attempt, on which the write may succeed, is made.
RetriedWhileThrottled ==
    (wstate # "idle" /\ OnlyThrottled /\ Calls < retries) =>
        /\ wstate = "running"
        /\ attempt = Calls + 1
        /\ Len(Sleeps) = Calls

\* C1 as stated, for every backoff: the schedule is followed and every
\* attempt up to the successful one is made.
C1_Original ==
    /\ ScheduleFollowed
    /\ RetriedWhileThrottled

\* C1 amended: for every backoff >= 0 (and, for k = 1, any backoff) the
\* schedule is followed and every attempt up to the successful one is made;
\* with a negative backoff the first throttled failure that has attempts
\* left ends the call with the ValueError of time.sleep, after one write
\* call and no sleep.
C1_BackoffSchedule ==
    /\ ScheduleFollowed
    /\ backoff >= 0 => RetriedWhileThrottled
    /\ (backoff < 0 /\ wstate # "idle" /\ OnlyThrottled /\ Calls < retries) =>
        \/ (wstate = "running" /\ Calls = 0 /\ attempt = 1)
        \/ (wstate = "raised" /\ werror = "ValueError" /\ Calls = 1 /\ Sleeps = <<>>)

\* C1 witness: two throttled attempts, then success on the third, with waits 2 and 4.
C1_Witness ==
    /\ wstate = "returned" /\ backoff = 2 /\ Calls = 3
    /\ ThrottledThenOk(3)
    /\ Len(Sleeps) = 2 /\ Sleeps[1].wait = 2 /\ Sleeps[2].wait = 4

\* The error that reached the caller is the last write's own, and that write
\* is the last event: no sleep and no write after it.
RaisedFromWrite ==
    /\ wlog # <<>>
    /\ wlog[Len(wlog)].op = "write"
    /\ wlog[Len(wlog)].outcome # "ok"
    /\ werror = wlog[Len(wlog)].outcome
    /\ wlog[Len(wlog)].attempt = Calls
    /\ (werror = "SLOW_DOWN" => Calls = retries)

\* The error that reached the caller is the ValueError of time.sleep, which
\* was given a negative length after a throttled write that had attempts left.
RaisedFromSleep ==
    /\ werror = "ValueError"
    /\ backoff < 0
    /\ Len(wlog) = 2
    /\ wlog[1] = WriteEvent(1, "SLOW_DOWN")
    /\ wlog[2] = SleepErrorEvent(1, backoff)
    /\ 1 < retries

\* What C2 says of the failures that are not retried: a failure that is not
\* throttling-marked, and a throttling-marked one on attempt `retries`, is
\* the last event and the call has raised; every sleep follows a throttled
\* write that had attempts left.
FailuresEndTheCall ==
    /\ wstate # "raised" => werror = "none"
    /\ \A i \in DOMAIN wlog :
        (/\ wlog[i].op = "write"
         /\ \/ wlog[i].outcome \in {"OSError", "Exception"}
            \/ (wlog[i].outcome = "SLOW_DOWN" /\ wlog[i].attempt = retries))
        => (i = Len(wlog) /\ wstate = "raised" /\ werror = wlog[i].outcome)
    /\ \A i \in DOMAIN wlog :
        wlog[i].op = "sleep" =>
            (i > 1 /\ wlog[i - 1] = WriteEvent(wlog[i].attempt, "SLOW_DOWN")
                   /\ wlog[i].attempt < retries)

\* C2 as stated: no error is masked (the error that reaches the caller is
\* always the failed write's own), failures that are not retried end the
\* call, the number of write calls never exceeds `retries` and the number of
\* sleeps never exceeds retries-1.
C2_Original ==
    /\ wstate = "raised" => RaisedFromWrite
    /\ FailuresEndTheCall
    /\ Calls <= retries
    /\ Len(Sleeps) <= retries - 1

\* C2 amended: the error that reaches the caller is the failed write's own,
\* except that with a negative backoff a throttled failure with attempts
\* left is replaced by the ValueError of time.sleep; failures that are not
\* retried end the call; the number of write calls never exceeds
\* max(retries, 0) and the number of sleeps never exceeds max(retries-1, 0).
C2_ErrorsPropagate ==
    /\ wstate = "raised" => (RaisedFromWrite \/ RaisedFromSleep)
    /\ (wstate = "raised" /\ backoff >= 0) => RaisedFromWrite
    /\ FailuresEndTheCall
    /\ Calls <= Max0(retries)
    /\ Len(Sleeps) <= Max0(retries - 1)

\* C2 witness: a throttled failure on the last attempt of a budget of 3 is
\* raised after three calls and two sleeps.
C2_Witness ==
    /\ wstate = "raised" /\ werror = "SLOW_DOWN"
    /\ retries = 3 /\ Calls = 3 /\ Len(Sleeps) = 2

\* C10: whenever the function returns normally, the write was called at
\* least once and its last call succeeded.
C10_NoSilentFailure ==
    wstate = "returned" =>
        /\ Calls >= 1
        /\ Writes[Calls].outcome = "ok"

(***************************************************************************)
(* Properties of build_catalog (checked under Spec)                        *)
(***************************************************************************)
SetMin(S) == CHOOSE m \in S : \A x \in S : m <= x
SetMax(S) == CHOOSE m \in S : \A x \in S : m >= x

RECURSIVE SumRowCounts(_)
SumRowCounts(its) ==
    IF its = <<>> THEN 0 ELSE Head(its).row_count + SumRowCounts(Tail(its))

Coord(its, c) == {its[i].bbox[c] : i \in DOMAIN its}

DocsWritten == {h \in Hrefs : written[h] # NoDoc}
NothingWritten == DocsWritten = {}

EventsOf(kind) == {i \in DOMAIN trace : trace[i].ev = kind}
EventsAt(kind, f) == {i \in DOMAIN trace : trace[i].ev = kind /\ trace[i].file = f}

\* C3: once the collection is built from a non-empty sequence of files, its
\* bbox is the coordinate-wise min/max over the item bboxes and contains
\* each of them, its temporal extent is [min start, max end] and contains
\* each item's range, and its row_count is the sum of the item row_counts;
\* the persisted collection document carries the same values.
C3_CollectionAggregates ==
    collection.built =>
        LET its == collection.items IN
        /\ its = items /\ its # <<>>
        /\ Len(its) = Cardinality(ParquetFiles(tree))
        /\ collection.bbox = <<SetMin(Coord(its, 1)), SetMin(Coord(its, 2)),
                               SetMax(Coord(its, 3)), SetMax(Coord(its, 4))>>
        /\ \A i \in DOMAIN its :
            /\ collection.bbox[1] <= its[i].bbox[1]
            /\ collection.bbox[2] <= its[i].bbox[2]
            /\ collection.bbox[3] >= its[i].bbox[3]
            /\ collection.bbox[4] >= its[i].bbox[4]
            /\ collection.interval[1] <= its[i].start_datetime
            /\ collection.interval[2] >= its[i].end_datetime
        /\ collection.interval =
              <<SetMin({its[i].start_datetime : i \in DOMAIN its}),
                SetMax({its[i].end_datetime : i \in DOMAIN its})>>
        /\ collection.row_count = SumRowCounts(its)
        /\ written[CollectionHref] # NoDoc =>
            /\ written[CollectionHref].bbox = collection.bbox
            /\ written[CollectionHref].interval = collection.interval
            /\ written[CollectionHref].row_count = SumRowCounts(its)

\* C3 witness: a persisted collection over two items whose extent is
\* neither item's own.
C3_Witness ==
    /\ pc = "done" /\ Len(collection.items) = 2
    /\ collection.bbox # collection.items[1].bbox
    /\ collection.bbox # collection.items[2].bbox
    /\ collection.interval[1] # collection.items[1].start_datetime
    /\ collection.row_count = 3

BadFile(f) == ~tree[f].readable \/ tree[f].rows = <<>>

\* C4: a file that cannot be summarized (one with zero rows included) or an
\* item that fails its creation-time validation ends the run with that
\* error at that file: it is the last file touched, no later file was
\* processed, no collection was built and no document was written, however
\* many files were summarized before it.
C4_BadFileAborts ==
    /\ \A i \in DOMAIN order :
        BadFile(order[i]) =>
            /\ pc = "failed"
            /\ i = Len(order)
            /\ error = (IF tree[order[i]].readable THEN "EmptyFile" ELSE "ReadError")
    /\ (pc = "failed" /\ error \in {"EmptyFile", "ReadError", "ItemValidation"}) =>
        /\ order # <<>>
        /\ trace[Len(trace)].file = order[Len(order)]
        /\ trace[Len(trace)].ev = (IF error = "ItemValidation" THEN "validate_item"
                                                              ELSE "summarize")
        /\ error # "ItemValidation" => BadFile(order[Len(order)])
        /\ \A i \in DOMAIN queue : \A j \in DOMAIN trace : trace[j].file # queue[i]
        /\ Len(items) = Len(order) - 1
        /\ ~collection.built
        /\ NothingWritten
        /\ EventsOf("save_item") = {} /\ EventsOf("save_collection") = {}
        /\ ~ENABLED Next

\* C4 witness: the second file has zero rows; the first was summarized and
\* added, a third is still unprocessed, nothing is written.
C4_Witness ==
    /\ pc = "failed" /\ error = "EmptyFile"
    /\ Len(order) = 2 /\ Len(items) = 1 /\ Len(queue) = 1
    /\ tree[order[2]].readable /\ tree[order[2]].rows = <<>>
    /\ NothingWritten

\* C5: any two distinct files yield items with distinct identifiers, and a
\* run that got past persistence has written exactly one item document per
\* discovered file.
C5_UniqueItemIds ==
    /\ \A i, j \in DOMAIN items : i # j => items[i].id # items[j].id
    /\ pc \in {"validate", "done"} =>
        Cardinality(DocsWritten \ {CollectionHref}) = Cardinality(ParquetFiles(tree))

\* C6: in no failed end state do a collection document and an item document
\* linked to it remain written.
C6_NoCatalogLeftOnFailure ==
    pc = "failed" =>
        ~ /\ written[CollectionHref] # NoDoc
          /\ \E i \in DOMAIN written[CollectionHref].links :
                LET h == written[CollectionHref].links[i] IN
                /\ written[h] # NoDoc
                /\ written[h].links = <<CollectionHref>>

\* C7: a run over a tree with no tabular file ends, after the loop, with the
\* empty-catalog error, with no collection built and nothing written; the
\* empty-catalog error is raised only for such a tree, never once an item
\* was produced.
C7_EmptyCatalog ==
    /\ (ParquetFiles(tree) = {} /\ pc \notin {"start", "loop"}) =>
        (pc = "failed" /\ error = "EmptyCatalog")
    /\ error = "EmptyCatalog" =>
        /\ pc = "failed"
        /\ ParquetFiles(tree) = {}
        /\ queue = <<>> /\ order = <<>> /\ items = <<>>
        /\ ~collection.built
        /\ EventsOf("build_collection") = {}
        /\ NothingWritten
    /\ items # <<>> => error # "EmptyCatalog"

\* C7 witness: the tree holds a file, but no tabular one, and the run failed
\* with the empty-catalog error.
C7_Witness ==
    /\ pc = "failed" /\ error = "EmptyCatalog"
    /\ Present(tree) # {} /\ ParquetFiles(tree) = {}

\* The aggregates obtained by folding a sequence of items the way the loop does.
RECURSIVE FoldItems(_, _, _, _, _)
FoldItems(its, ob, sts, ens, n) ==
    IF its = <<>> THEN <<ob, <<MinOf(sts), MaxOf(ens)>>, n>>
    ELSE FoldItems(Tail(its), MergeBBox(ob, Head(its).bbox),
                   Append(sts, Head(its).start_datetime),
                   Append(ens, Head(its).end_datetime),
                   AddRows(n, Head(its).row_count))

Reorderings(its) ==
    { [i \in DOMAIN its |-> its[l[i]]] : l \in Listings(DOMAIN its) }

\* C8: folding the items of the collection in any order yields the
\* collection's bbox, temporal extent and row_count; the files are
\* processed in ascending path order whatever order they were listed in;
\* the re-run over the unchanged tree processes the files in the same order
\* and builds the same extent and row_count.
C8_OrderIndependent ==
    /\ \A i, j \in DOMAIN order : i < j => PathLess(order[i], order[j])
    /\ \A i \in DOMAIN queue : \A j \in DOMAIN order : PathLess(order[j], queue[i])
    /\ collection.built =>
        /\ \A r \in Reorderings(collection.items) :
            FoldItems(r, NoBBox, <<>>, <<>>, 0)
                = <<collection.bbox, collection.interval, collection.row_count>>
        /\ run = 2 =>
            /\ order = prev.order
            /\ collection.bbox = prev.collection.bbox
            /\ collection.interval = prev.collection.interval
            /\ collection.row_count = prev.collection.row_count
    /\ run = 2 =>
        \A i \in DOMAIN order : i <= Len(prev.order) /\ order[i] = prev.order[i]

\* C8 witness: the re-run has completed over two files.
C8_Witness ==
    /\ run = 2 /\ pc = "done" /\ Len(order) = 2
    /\ collection.items[1].bbox # collection.items[2].bbox

First(S) == SetMin(S)

\* C9: every item is validated right after its file is summarized and right
\* before it is appended, so before the next file is summarized; layout
\* assignment happens once, after every item is linked and before any
\* document is written; the collection is validated only after the last
\* document is written; in a run that returns, the collection was validated
\* once, after persistence, and every item twice: once at creation, once
\* after persistence.
C9_TwoPhaseValidation ==
    /\ \A i \in EventsOf("append") :
        /\ i >= 3
        /\ trace[i - 1] = Ev("validate_item", trace[i].file)
        /\ trace[i - 2] = Ev("summarize", trace[i].file)
    /\ \A i \in EventsOf("summarize") :
        /\ i = 1 \/ trace[i - 1].ev = "append"
        /\ \A j \in EventsOf("build_collection") : i < j
    /\ Cardinality(EventsOf("layout")) <= 1
    /\ collection.built =>
        /\ Cardinality(EventsOf("layout")) = 1
        /\ Cardinality(EventsOf("link")) = Len(items)
        /\ \A i \in DOMAIN items : EventsAt("link", items[i].asset) # {}
    /\ \A i \in EventsOf("link") : \A j \in EventsOf("layout") : i < j
    /\ \A i \in EventsOf("save_item") \cup EventsOf("save_collection") :
        /\ EventsOf("layout") # {}
        /\ \A j \in EventsOf("layout") : j < i
    /\ ~NothingWritten => EventsOf("layout") # {}
    /\ \A i \in EventsOf("validate_collection") :
        /\ EventsOf("save_collection") # {}
        /\ \A j \in EventsOf("save_item") \cup EventsOf("save_collection") : j < i
        /\ \A p \in AssetPaths : \A j \in EventsAt("validate_item", p) :
              j > i => \E k \in EventsAt("append", p) : k < i
    /\ pc = "done" =>
        /\ Cardinality(EventsOf("validate_collection")) = 1
        /\ \A i \in DOMAIN items :
            LET vs == EventsAt("validate_item", items[i].asset)
                sv == First(EventsOf("save_item") \cup EventsOf("save_collection"))
                vc == First(EventsOf("validate_collection"))
            IN  /\ Cardinality(vs) = 2
                /\ \E a \in vs : a < sv
                /\ \E b \in vs : b > vc

\* C9 witness: a run over two files has returned; the second item's two
\* validations lie on either side of the persistence.
C9_Witness ==
    /\ pc = "done" /\ Len(items) = 2
    /\ Cardinality(EventsAt("validate_item", items[2].asset)) = 2
    /\ Cardinality(EventsOf("save_item")) = 2

====
